---- MODULE Spec2Model ----
(***************************************************************************)
(* backend/app.py: a Flask application with one route, GET /hello, served  *)
(* on AWS Lambda through aws_wsgi.response.                                *)
(*                                                                         *)
(* The module models the application object built at import time (the     *)
(* route table), the steps of one lambda_handler invocation                *)
(*   event received -> WSGI environ built -> app dispatched ->             *)
(*   response converted -> envelope returned (or exception propagated)     *)
(* and the values that flow through them, down to the bytes of the body.   *)
(* Flask, Werkzeug and aws_wsgi are called by app.py; what they do at the  *)
(* call sites of app.py is modelled at those call sites.                   *)
(***************************************************************************)
EXTENDS Naturals, Sequences, FiniteSets, TLC

VARIABLES
    app,        \* the module-level Flask instance: its route table and views
    pc,         \* per worker: where its current invocation stands
    event,      \* per worker: the event lambda_handler was called with
    context,    \* per worker: the context lambda_handler was called with
    wsgienv,    \* per worker: the WSGI environ aws_wsgi built from the event
    sr,         \* per worker: the StartResponse object (status, headers, body)
    result,     \* per worker: what lambda_handler returned
    raised,     \* per worker: the exception lambda_handler let through
    dispatched, \* per worker: calls of app(environ, sr) in this invocation
    calls,      \* per worker: calls of hello() in this invocation
    rv          \* per worker: the envelope StartResponse.response built

vars == <<app, pc, event, context, wsgienv, sr, rv, result, raised,
          dispatched, calls>>

----------------------------------------------------------------------------
(* Bounds of the model.                                                    *)

NumWorkers == 2

Workers == 1..NumWorkers

----------------------------------------------------------------------------
(* Python values.                                                          *)

None == [isNone |-> TRUE]
Dict(items) == [isNone |-> FALSE, items |-> items]

Digits == <<"0", "1", "2", "3", "4", "5", "6", "7", "8", "9">>

RECURSIVE str(_)
str(n) == IF n < 10 THEN Digits[n + 1]
          ELSE str(n \div 10) \o Digits[(n % 10) + 1]

\* dict(pairs): a list of (key, value) pairs as a mapping; a later pair wins.
dict(pairs) ==
    [k \in {pairs[i][1] : i \in DOMAIN pairs} |->
        LET last == CHOOSE i \in DOMAIN pairs :
                       /\ pairs[i][1] = k
                       /\ \A j \in DOMAIN pairs : pairs[j][1] = k => j <= i
        IN  pairs[last][2]]

RECURSIVE Join(_, _)
Join(parts, sep) ==
    IF parts = <<>> THEN ""
    ELSE IF Len(parts) = 1 THEN parts[1]
    ELSE parts[1] \o sep \o Join(Tail(parts), sep)

\* urllib's urlencode of a dict: k=v pairs joined by &.
urlencode(d) ==
    Join([i \in DOMAIN d.items |-> d.items[i][1] \o "=" \o d.items[i][2]], "&")

----------------------------------------------------------------------------
(* The application: app = Flask(__name__) and the @app.get("/hello") route. *)

HttpMethods == {"GET", "HEAD", "OPTIONS", "POST", "PUT", "DELETE"}
MethodOrder == <<"DELETE", "GET", "HEAD", "OPTIONS", "POST", "PUT">>

\* Flask(__name__): an application with an empty url map and no views.
Flask == [url_map |-> {}, view_functions |-> {}]

\* app.get(rule): add_url_rule with methods=["GET"]; Flask adds OPTIONS
\* (provide_automatic_options) and Werkzeug's Rule adds HEAD wherever GET is.
app_get(a, rule, endpoint) ==
    [url_map |-> a.url_map \cup
                   {[rule |-> rule,
                     methods |-> {"GET"} \cup {"HEAD"} \cup {"OPTIONS"},
                     endpoint |-> endpoint]},
     view_functions |-> a.view_functions \cup {endpoint}]

InitialApp == app_get(Flask, "/hello", "hello")

\* The mapping hello() passes to jsonify, as (key, value) pairs.
GreetingPayload == <<<<"message", "Hello from Flask on Lambda!">>>>

\* Mutant of dumps: json.dumps with its default separators (", ", ": ").
dumps_default_separators(obj) ==
    "{" \o Join([i \in DOMAIN obj |->
                   "\"" \o obj[i][1] \o "\"" \o ": " \o "\"" \o obj[i][2] \o "\""],
                ", ") \o "}"

\* json.dumps(obj, separators=(",", ":")) of a flat str -> str mapping.
dumps(obj) ==
    "{" \o Join([i \in DOMAIN obj |->
                   "\"" \o obj[i][1] \o "\"" \o ":" \o "\"" \o obj[i][2] \o "\""],
                ",") \o "}"

\* Mutant of jsonify: the response is built without the JSON mimetype.
jsonify_as_html(obj) ==
    [status |-> 200, reason |-> "OK",
     headers |-> <<<<"Content-Type", "text/html; charset=utf-8">>>>,
     body |-> "{\"message\":\"Hello from Flask on Lambda!\"}\n"]

\* flask.jsonify: the compact dump and a newline, as an application/json
\* response with status 200.
jsonify(obj) ==
    [status |-> 200, reason |-> "OK",
     headers |-> <<<<"Content-Type", "application/json">>>>,
     body |-> dumps(obj) \o "\n"]

\* Mutant of hello: the greeting names the Lambda request id.
hello_with_request_id(request) ==
    [status |-> 200, reason |-> "OK",
     headers |-> <<<<"Content-Type", "application/json">>>>,
     body |-> "{\"message\":\"Hello from Flask on Lambda!\",\"id\":\""
              \o request.awsgi_context.aws_request_id \o "\"}\n"]

\* Mutant of hello: the greeting echoes the query string.
hello_with_query(request) ==
    [status |-> 200, reason |-> "OK",
     headers |-> <<<<"Content-Type", "application/json">>>>,
     body |-> "{\"message\":\"Hello from Flask on Lambda!\",\"query\":\""
              \o request.QUERY_STRING \o "\"}\n"]

\* The view function. It takes no argument; the request is ambient
\* (flask.request), so it is a parameter here. hello() does not read it.
hello(request) == jsonify(GreetingPayload)

\* Werkzeug's page for an HTTPException.
ErrorPage(code, name, description) ==
    "<!doctype html>\n<html lang=en>\n<title>" \o str(code) \o " " \o name
    \o "</title>\n<h1>" \o name \o "</h1>\n<p>" \o description \o "</p>\n"

HtmlType == <<"Content-Type", "text/html; charset=utf-8">>

\* The Allow header: the rule's methods joined by ", ". (Werkzeug joins them in
\* the iteration order of a set, which is fixed for one process.)
Allow(methods) ==
    <<"Allow", Join(SelectSeq(MethodOrder, LAMBDA m : m \in methods), ", ")>>

NotFound ==
    [status |-> 404, reason |-> "NOT FOUND",
     headers |-> <<HtmlType>>,
     body |-> ErrorPage(404, "Not Found",
         "The requested URL was not found on the server. If you entered the URL "
         \o "manually please check your spelling and try again.")]

MethodNotAllowed(valid) ==
    [status |-> 405, reason |-> "METHOD NOT ALLOWED",
     headers |-> <<HtmlType, Allow(valid)>>,
     body |-> ErrorPage(405, "Method Not Allowed",
         "The method is not allowed for the requested URL.")]

\* Flask.make_default_options_response: an empty 200 response with Allow.
OptionsResponse(valid) ==
    [status |-> 200, reason |-> "OK",
     headers |-> <<HtmlType, Allow(valid)>>,
     body |-> ""]

\* Mutant of url_match: the rule of the path matches whatever the method.
url_match_any_method(a, path, method) ==
    LET onpath == {r \in a.url_map : r.rule = path}
    IN  IF onpath # {}
        THEN [kind |-> "match", endpoint |-> (CHOOSE r \in onpath : TRUE).endpoint,
              valid |-> UNION {r.methods : r \in onpath}]
        ELSE [kind |-> "NotFound", endpoint |-> "", valid |-> {}]

\* MapAdapter.match: the rule of the path, then its methods.
url_match(a, path, method) ==
    LET onpath == {r \in a.url_map : r.rule = path}
        hit    == {r \in onpath : method \in r.methods}
    IN  IF hit # {}
        THEN [kind |-> "match", endpoint |-> (CHOOSE r \in hit : TRUE).endpoint,
              valid |-> UNION {r.methods : r \in onpath}]
        ELSE IF onpath # {}
        THEN [kind |-> "MethodNotAllowed", endpoint |-> "",
              valid |-> UNION {r.methods : r \in onpath}]
        ELSE [kind |-> "NotFound", endpoint |-> "", valid |-> {}]

\* The view functions of the application, by endpoint.
view(endpoint, request) == hello(request)

\* Flask.full_dispatch_request: route the request, answer OPTIONS itself,
\* otherwise call the view; routing errors become their responses.
\* `viewed` counts the calls of the view function.
full_dispatch_request(a, env) ==
    LET m == url_match(a, env.PATH_INFO, env.REQUEST_METHOD)
    IN  IF m.kind = "NotFound"
        THEN [response |-> NotFound, viewed |-> 0]
        ELSE IF m.kind = "MethodNotAllowed"
        THEN [response |-> MethodNotAllowed(m.valid), viewed |-> 0]
        ELSE IF env.REQUEST_METHOD = "OPTIONS"
        THEN [response |-> OptionsResponse(m.valid), viewed |-> 0]
        ELSE [response |-> view(m.endpoint, env), viewed |-> 1]

\* Mutant of wsgi_response: a HEAD request gets the body too.
wsgi_response_with_body(resp, env) ==
    [status |-> resp.status, reason |-> resp.reason,
     headers |-> Append(resp.headers, <<"Content-Length", str(Len(resp.body))>>),
     body |-> resp.body]

\* Response.__call__: Content-Length of the body is added to the headers and
\* a HEAD request gets the headers without the body.
wsgi_response(resp, env) ==
    [status |-> resp.status, reason |-> resp.reason,
     headers |-> Append(resp.headers, <<"Content-Length", str(Len(resp.body))>>),
     body |-> IF env.REQUEST_METHOD = "HEAD" THEN "" ELSE resp.body]

\* Flask.wsgi_app(environ, start_response).
wsgi_app(a, env) ==
    LET d == full_dispatch_request(a, env)
    IN  [response |-> wsgi_response(d.response, env), viewed |-> d.viewed]

\* Mutant of app_after_request: serving a request drops its rule.
app_after_request_unregisters(a, env) ==
    [a EXCEPT !.url_map = {r \in a.url_map : r.rule # env.PATH_INFO}]

\* What serving a request leaves of the application: nothing is registered,
\* removed or stored by the view or by the dispatch.
app_after_request(a, env) == a

----------------------------------------------------------------------------
(* aws_wsgi.response(app, event, context), as lambda_handler calls it.      *)

\* The keys environ() reads with event[...]; the others are read with .get().
RequiredKeys == {"httpMethod", "path", "queryStringParameters"}

\* k.upper().replace("-", "_") under the HTTP_ prefix, for the header names
\* of the events below.
EnvironKey(k) ==
    CASE k = "X-Trace" -> "HTTP_X_TRACE"
      [] k = "Accept"  -> "HTTP_ACCEPT"
      [] OTHER         -> "HTTP_" \o k

\* x or {} for a value that is None or a dict: its items.
OrEmpty(x) == IF x.isNone THEN <<>> ELSE x.items

\* Mutant of environ: every request is given the method GET.
environ_always_get(ev, ctx) ==
    IF ~(RequiredKeys \subseteq DOMAIN ev)
    THEN [raised |-> TRUE, exc |-> "KeyError", value |-> None]
    ELSE [raised |-> FALSE, exc |-> "",
          value |->
            [isNone |-> FALSE,
             REQUEST_METHOD |-> "GET",
             PATH_INFO      |-> ev.path,
             QUERY_STRING   |-> urlencode(Dict(OrEmpty(ev.queryStringParameters))),
             CONTENT_LENGTH |-> "0",
             wsgi_input     |-> "",
             http           |-> dict(<<>>),
             awsgi_event    |-> ev,
             awsgi_context  |-> ctx]]

\* aws_wsgi.environ(event, context): the WSGI environ of the event, or the
\* KeyError of a key the event does not have.
environ(ev, ctx) ==
    IF ~(RequiredKeys \subseteq DOMAIN ev)
    THEN [raised |-> TRUE, exc |-> "KeyError", value |-> None]
    ELSE
      LET body    == IF "body" \in DOMAIN ev THEN ev.body ELSE ""
          headers == IF "headers" \in DOMAIN ev THEN OrEmpty(ev.headers) ELSE <<>>
      IN  [raised |-> FALSE, exc |-> "",
           value |->
             [isNone |-> FALSE,
              REQUEST_METHOD |-> ev.httpMethod,
              PATH_INFO      |-> ev.path,
              QUERY_STRING   |-> urlencode(Dict(OrEmpty(ev.queryStringParameters))),
              CONTENT_LENGTH |-> str(Len(body)),
              wsgi_input     |-> body,
              http |-> dict([i \in DOMAIN headers |->
                               <<EnvironKey(headers[i][1]), headers[i][2]>>]),
              awsgi_event    |-> ev,
              awsgi_context  |-> ctx]]

\* StartResponse.__init__: the status is 500 until the application calls it.
StartResponse ==
    [isNone |-> FALSE, status |-> 500,
     status_line |-> <<"500", "Internal Server Error">>,
     headers |-> <<>>, output |-> ""]

\* StartResponse.__call__(status, headers) and the body the application
\* returns: app(environ, sr) seen from the StartResponse object.
start_response(resp) ==
    [isNone |-> FALSE, status |-> resp.status,
     status_line |-> <<str(resp.status), resp.reason>>,
     headers |-> resp.headers, output |-> resp.body]

\* StartResponse_GW.response(output): the API Gateway envelope. The status is
\* a string, the headers a dict, the body text; no content type is binary.
sr_response(s) ==
    [isNone |-> FALSE,
     statusCode |-> str(s.status),
     headers |-> dict(s.headers),
     isBase64Encoded |-> FALSE,
     body |-> s.output]

\* Mutant of lambda_handler: an exception is caught and answered with a 500.
lambda_handler_recovers(outcome) ==
    IF outcome.raised
    THEN [raised |-> FALSE, exc |-> "",
          value |-> [isNone |-> FALSE, statusCode |-> "500", headers |-> dict(<<>>),
                     isBase64Encoded |-> FALSE, body |-> outcome.exc]]
    ELSE outcome

\* lambda_handler: returns what aws_wsgi.response returns and lets through what
\* it raises; there is no try/except around the call.
lambda_handler(outcome) == outcome

Returning(v) == [raised |-> FALSE, exc |-> "", value |-> v]
Raising(e)   == [raised |-> TRUE, exc |-> e, value |-> None]

----------------------------------------------------------------------------
(* The events and contexts the platform calls lambda_handler with.          *)

Event(m, p, q, h, b) ==
    [httpMethod |-> m, path |-> p, queryStringParameters |-> q,
     headers |-> h, body |-> b]

\* Events without query, headers or body: every method on /hello, and GET
\* and POST on a path with no rule and on /hello/ (the rule has no trailing
\* slash).
PlainEvents ==
    {Event(m, "/hello", None, None, "") : m \in HttpMethods}
    \cup {Event(m, p, None, None, "") : m \in {"GET", "POST"},
                                         p \in {"/other", "/hello/"}}

\* GET /hello with a query string, with a header, with a body.
DressedEvents ==
    {Event("GET", "/hello", Dict(<<<<"name", "x">>>>), None, ""),
     Event("GET", "/hello", None, Dict(<<<<"X-Trace", "abc">>>>), ""),
     Event("GET", "/hello", None, None, "ping")}

\* Events that are not API Gateway proxy events: no httpMethod (the HTTP API
\* v2 payload), no path.
MalformedEvents ==
    {[rawPath |-> "/hello", queryStringParameters |-> None, headers |-> None,
      body |-> ""],
     [httpMethod |-> "GET", queryStringParameters |-> None, headers |-> None,
      body |-> ""]}

Events == PlainEvents \cup DressedEvents \cup MalformedEvents

Context(id) == [aws_request_id |-> id]

\* The calls of lambda_handler: every event under one context, and the
\* requests to /hello under a second one too.
Invocations ==
    (Events \X {Context("req-1")})
    \cup ({Event(m, "/hello", None, None, "") : m \in {"GET", "POST"}}
          \X {Context("req-2")})

WellFormed(ev) == RequiredKeys \subseteq DOMAIN ev
IsGetHello(ev) == WellFormed(ev) /\ ev.httpMethod = "GET" /\ ev.path = "/hello"

----------------------------------------------------------------------------
(* The state machine.                                                       *)

Init ==
    /\ app = InitialApp
    /\ pc = [p \in Workers |-> "idle"]
    /\ event = [p \in Workers |-> None]
    /\ context = [p \in Workers |-> None]
    /\ wsgienv = [p \in Workers |-> None]
    /\ sr = [p \in Workers |-> None]
    /\ rv = [p \in Workers |-> None]
    /\ result = [p \in Workers |-> None]
    /\ raised = [p \in Workers |-> ""]
    /\ dispatched = [p \in Workers |-> 0]
    /\ calls = [p \in Workers |-> 0]

\* The platform calls lambda_handler(event, context) on worker p.
Invoke(p) ==
    /\ pc[p] = "idle"
    /\ \E inv \in Invocations :
          /\ event' = [event EXCEPT ![p] = inv[1]]
          /\ context' = [context EXCEPT ![p] = inv[2]]
    /\ pc' = [pc EXCEPT ![p] = "received"]
    /\ UNCHANGED <<app, wsgienv, sr, rv, result, raised, dispatched, calls>>

\* aws_wsgi.response: sr = select_impl(event, context)(), then
\* environ(event, context), which raises on an event without its keys.
BuildEnviron(p) ==
    /\ pc[p] = "received"
    /\ sr' = [sr EXCEPT ![p] = StartResponse]
    /\ LET e == environ(event[p], context[p])
       IN  IF e.raised
           THEN /\ raised' = [raised EXCEPT ![p] = e.exc]
                /\ pc' = [pc EXCEPT ![p] = "raising"]
                /\ UNCHANGED wsgienv
           ELSE /\ wsgienv' = [wsgienv EXCEPT ![p] = e.value]
                /\ pc' = [pc EXCEPT ![p] = "constructed"]
                /\ UNCHANGED raised
    /\ UNCHANGED <<app, event, context, rv, result, dispatched, calls>>

\* Mutant of Dispatch: the application is called again after its first answer.
Dispatch_again(p) ==
    /\ pc[p] = "constructed"
    /\ LET d == wsgi_app(app, wsgienv[p])
       IN  /\ sr' = [sr EXCEPT ![p] = start_response(d.response)]
           /\ calls' = [calls EXCEPT ![p] = @ + d.viewed]
    /\ dispatched' = [dispatched EXCEPT ![p] = @ + 1]
    /\ app' = app_after_request(app, wsgienv[p])
    /\ pc' = [pc EXCEPT ![p] = IF dispatched[p] = 0 THEN "constructed" ELSE "handled"]
    /\ UNCHANGED <<event, context, wsgienv, rv, result, raised>>

\* aws_wsgi.response: output = app(environ, sr).
Dispatch(p) ==
    /\ pc[p] = "constructed"
    /\ LET d == wsgi_app(app, wsgienv[p])
       IN  /\ sr' = [sr EXCEPT ![p] = start_response(d.response)]
           /\ calls' = [calls EXCEPT ![p] = @ + d.viewed]
    /\ dispatched' = [dispatched EXCEPT ![p] = @ + 1]
    /\ app' = app_after_request(app, wsgienv[p])
    /\ pc' = [pc EXCEPT ![p] = "handled"]
    /\ UNCHANGED <<event, context, wsgienv, rv, result, raised>>

\* aws_wsgi.response: sr.response(output).
Convert(p) ==
    /\ pc[p] = "handled"
    /\ rv' = [rv EXCEPT ![p] = sr_response(sr[p])]
    /\ pc' = [pc EXCEPT ![p] = "converted"]
    /\ UNCHANGED <<app, event, context, wsgienv, sr, result, raised, dispatched,
                   calls>>

\* What the caller of lambda_handler gets: the envelope, or the exception.
Leave(p, outcome) ==
    IF outcome.raised
    THEN /\ raised' = [raised EXCEPT ![p] = outcome.exc]
         /\ result' = [result EXCEPT ![p] = None]
         /\ pc' = [pc EXCEPT ![p] = "raised"]
    ELSE /\ result' = [result EXCEPT ![p] = outcome.value]
         /\ raised' = [raised EXCEPT ![p] = ""]
         /\ pc' = [pc EXCEPT ![p] = "returned"]

\* lambda_handler returns the envelope of aws_wsgi.response.
Return(p) ==
    /\ pc[p] = "converted"
    /\ Leave(p, lambda_handler(Returning(rv[p])))
    /\ UNCHANGED <<app, event, context, wsgienv, sr, rv, dispatched, calls>>

\* The exception of aws_wsgi.response leaves lambda_handler.
Propagate(p) ==
    /\ pc[p] = "raising"
    /\ Leave(p, lambda_handler(Raising(raised[p])))
    /\ UNCHANGED <<app, event, context, wsgienv, sr, rv, dispatched, calls>>

\* The invocation is over; the worker waits for the next one.
Finish(p) ==
    /\ pc[p] \in {"returned", "raised"}
    /\ pc' = [pc EXCEPT ![p] = "idle"]
    /\ event' = [event EXCEPT ![p] = None]
    /\ context' = [context EXCEPT ![p] = None]
    /\ wsgienv' = [wsgienv EXCEPT ![p] = None]
    /\ sr' = [sr EXCEPT ![p] = None]
    /\ rv' = [rv EXCEPT ![p] = None]
    /\ result' = [result EXCEPT ![p] = None]
    /\ raised' = [raised EXCEPT ![p] = ""]
    /\ dispatched' = [dispatched EXCEPT ![p] = 0]
    /\ calls' = [calls EXCEPT ![p] = 0]
    /\ UNCHANGED app

Step(p) ==
    \/ Invoke(p)
    \/ BuildEnviron(p)
    \/ Dispatch(p)
    \/ Convert(p)
    \/ Return(p)
    \/ Propagate(p)
    \/ Finish(p)

Next == \E p \in Workers : Step(p)

Spec == Init /\ [][Next]_vars

\* A started invocation runs on: lambda_handler is straight-line code, and the
\* interpreter runs it to its return or to the exception.
Run(p) == BuildEnviron(p) \/ Dispatch(p) \/ Convert(p) \/ Return(p) \/ Propagate(p)

FairSpec == Spec /\ \A p \in Workers : WF_vars(Run(p))

----------------------------------------------------------------------------
(* Properties.                                                              *)

\* The application has answered worker p's request.
Answered(p) == pc[p] \in {"handled", "converted", "returned"}
Returned(p) == pc[p] = "returned"
InFlight(p) == pc[p] # "idle"

\* The greeting as the specification prints it, and as jsonify writes it.
PrintedGreeting == "{\"message\": \"Hello from Flask on Lambda!\"}"
CompactGreeting == "{\"message\":\"Hello from Flask on Lambda!\"}\n"

ContentType(headers) ==
    IF "Content-Type" \in DOMAIN headers THEN headers["Content-Type"] ELSE ""

\* C1 as claimed: a GET of /hello is answered with status 200 and a body that
\* is exactly the text {"message": "Hello from Flask on Lambda!"}, with nothing
\* before or after it.
C1_BodyIsPrintedText ==
    \A p \in Workers :
        IsGetHello(event[p]) /\ Answered(p) =>
            /\ sr[p].status = 200
            /\ sr[p].output = PrintedGreeting

\* C1, amended: a GET of /hello is answered with status 200 and the body
\* {"message":"Hello from Flask on Lambda!"} (compact separators) followed by
\* one newline, in the HTTP response and in the envelope lambda_handler returns.
C1_GetHelloIsGreeting ==
    \A p \in Workers :
        IsGetHello(event[p]) =>
            /\ Answered(p) => sr[p].status = 200 /\ sr[p].output = CompactGreeting
            /\ Returned(p) => /\ result[p].statusCode = "200"
                              /\ result[p].body = CompactGreeting

C1_Witness ==
    \E p \in Workers :
        /\ Returned(p)
        /\ IsGetHello(event[p])
        /\ result[p].body = CompactGreeting

\* C2: a request to another path, or to /hello with a method other than GET,
\* is never answered with the greeting response: status 200, a JSON content
\* type and the greeting as body do not come together.
C2_OnlyGetHelloGreets ==
    \A p \in Workers :
        Answered(p) /\ WellFormed(event[p]) /\ ~IsGetHello(event[p]) =>
            /\ ~(/\ sr[p].status = 200
                 /\ ContentType(dict(sr[p].headers)) = "application/json"
                 /\ sr[p].output \in {CompactGreeting, PrintedGreeting})
            /\ Returned(p) =>
                 ~(/\ result[p].statusCode = "200"
                   /\ ContentType(result[p].headers) = "application/json"
                   /\ result[p].body \in {CompactGreeting, PrintedGreeting})

\* HEAD /hello: the greeting's status and content type, and no body.
C2_Witness ==
    \E p \in Workers :
        /\ Returned(p)
        /\ event[p].httpMethod = "HEAD" /\ event[p].path = "/hello"
        /\ result[p].statusCode = "200"
        /\ ContentType(result[p].headers) = "application/json"
        /\ result[p].body = ""

\* C3 as claimed: an unmatched path is answered 404 and /hello with any method
\* other than GET is answered 405, in both cases without a call of hello and
\* without an exception.
C3_EveryOtherMethodIs405 ==
    \A p \in Workers :
        Answered(p) /\ WellFormed(event[p]) =>
            /\ event[p].path # "/hello" => sr[p].status = 404 /\ calls[p] = 0
            /\ event[p].path = "/hello" /\ event[p].httpMethod # "GET" =>
                   sr[p].status = 405 /\ calls[p] = 0

\* C3, amended: an unmatched path is answered 404, and /hello with a method
\* that is not one of the route's (GET, HEAD, OPTIONS) is answered 405, in both
\* cases without a call of hello and as a response, not an exception. HEAD
\* /hello calls hello and is answered 200 with an empty body; OPTIONS /hello is
\* answered 200 with an Allow header, without a call of hello.
C3_UnmatchedIsErrorResponse ==
    \A p \in Workers :
        InFlight(p) /\ WellFormed(event[p]) =>
            /\ pc[p] \notin {"raising", "raised"} /\ raised[p] = ""
            /\ Answered(p) =>
                 /\ event[p].path # "/hello" => sr[p].status = 404 /\ calls[p] = 0
                 /\ event[p].path = "/hello"
                      /\ event[p].httpMethod \notin {"GET", "HEAD", "OPTIONS"} =>
                        /\ sr[p].status = 405 /\ calls[p] = 0
                        /\ "Allow" \in DOMAIN dict(sr[p].headers)
                 /\ event[p].path = "/hello" /\ event[p].httpMethod = "HEAD" =>
                        sr[p].status = 200 /\ calls[p] = 1 /\ sr[p].output = ""
                 /\ event[p].path = "/hello" /\ event[p].httpMethod = "OPTIONS" =>
                        /\ sr[p].status = 200 /\ calls[p] = 0
                        /\ "Allow" \in DOMAIN dict(sr[p].headers)
            /\ Returned(p) /\ event[p].path # "/hello" => result[p].statusCode = "404"
            /\ Returned(p) /\ event[p].path = "/hello"
                 /\ event[p].httpMethod \notin {"GET", "HEAD", "OPTIONS"} =>
                   result[p].statusCode = "405"

C3_Witness ==
    \E p, q \in Workers :
        /\ Returned(p) /\ event[p].path = "/hello" /\ event[p].httpMethod = "POST"
        /\ result[p].statusCode = "405" /\ calls[p] = 0
        /\ Returned(q) /\ event[q].path = "/other"
        /\ result[q].statusCode = "404" /\ calls[q] = 0

\* C4: the answer to GET /hello has the content type application/json, in the
\* HTTP response of the application and in the headers of the envelope.
C4_JsonContentType ==
    \A p \in Workers :
        IsGetHello(event[p]) =>
            /\ Answered(p) => ContentType(dict(sr[p].headers)) = "application/json"
            /\ pc[p] = "converted" => ContentType(rv[p].headers) = "application/json"
            /\ Returned(p) => ContentType(result[p].headers) = "application/json"

C4_Witness ==
    \E p \in Workers :
        /\ Returned(p)
        /\ IsGetHello(event[p])
        /\ event[p].headers # None
        /\ "Content-Type" \in DOMAIN result[p].headers

C6_ExceptionPropagates ==
    \A p \in Workers :
        InFlight(p) /\ ~WellFormed(event[p]) =>
            /\ pc[p] \in {"received", "raising", "raised"}
            /\ result[p] = None /\ rv[p] = None
            /\ dispatched[p] = 0 /\ calls[p] = 0
            /\ pc[p] = "raised" => raised[p] = "KeyError"
            /\ app = InitialApp

C6_Witness ==
    \E p \in Workers :
        /\ pc[p] = "raised"
        /\ ~WellFormed(event[p])
        /\ raised[p] = "KeyError"
        /\ result[p] = None

\* The environ a WSGI server builds for a plain HTTP request.
HttpRequest(method, path) ==
    [isNone |-> FALSE, REQUEST_METHOD |-> method, PATH_INFO |-> path,
     QUERY_STRING |-> "", CONTENT_LENGTH |-> "0", wsgi_input |-> "",
     http |-> dict(<<>>), awsgi_event |-> None, awsgi_context |-> None]

\* C7: the envelope lambda_handler returns for a well-formed event carries the
\* status, the headers and the body of the response the application gives to
\* the HTTP request with the event's method and path; for GET /hello that is
\* status 200 and the greeting.
C7_EnvelopeIsHttpResponse ==
    \A p \in Workers :
        Returned(p) /\ WellFormed(event[p]) =>
            LET http == wsgi_app(app, HttpRequest(event[p].httpMethod,
                                                  event[p].path)).response
            IN  /\ result[p].statusCode = str(http.status)
                /\ result[p].headers = dict(http.headers)
                /\ result[p].body = http.body
                /\ IsGetHello(event[p]) =>
                     result[p].statusCode = "200" /\ result[p].body = CompactGreeting

C7_Witness ==
    \E p, q \in Workers :
        /\ Returned(p) /\ IsGetHello(event[p])
        /\ event[p].queryStringParameters # None
        /\ result[p].statusCode = "200"
        /\ Returned(q) /\ WellFormed(event[q]) /\ event[q].httpMethod = "POST"
        /\ result[q].statusCode = "405"

\* The steps of an invocation, in their order.
InvocationOrder ==
    {<<"idle", "received">>, <<"received", "constructed">>,
     <<"received", "raising">>, <<"constructed", "handled">>,
     <<"handled", "converted">>, <<"converted", "returned">>,
     <<"raising", "raised">>, <<"returned", "idle">>, <<"raised", "idle">>}

\* C8: an invocation with a well-formed event calls the application exactly
\* once and returns exactly one envelope, in the order received, environ
\* built, application called, response converted, envelope returned; it always
\* comes to its return; no envelope exists before the application has
\* answered and the application is never called a second time.
C8_OneRequestOneResponse ==
    /\ [](\A p \in Workers :
            /\ dispatched[p] <= 1 /\ calls[p] <= dispatched[p]
            /\ pc[p] \in {"idle", "received", "constructed", "raising", "raised"}
                 => dispatched[p] = 0 /\ rv[p] = None /\ result[p] = None
            /\ Answered(p) => dispatched[p] = 1 /\ sr[p].status # 500
            /\ pc[p] = "handled" => rv[p] = None /\ result[p] = None
            /\ pc[p] = "converted" => rv[p] # None /\ result[p] = None
            /\ Returned(p) => result[p] = rv[p] /\ result[p] # None)
    /\ [][\A p \in Workers :
            pc'[p] # pc[p] => <<pc[p], pc'[p]>> \in InvocationOrder]_vars
    /\ \A p \in Workers :
         (pc[p] = "received" /\ WellFormed(event[p])) ~> Returned(p)

C8_Witness ==
    \E p \in Workers :
        /\ Returned(p)
        /\ WellFormed(event[p])
        /\ dispatched[p] = 1
        /\ result[p] # None

\* C9: the greeting does not depend on the query string, the headers, the body
\* or the Lambda context: any two GET requests to /hello have the same HTTP
\* response and the same envelope.
C9_GreetingIgnoresInput ==
    \A p, q \in Workers :
        IsGetHello(event[p]) /\ IsGetHello(event[q]) =>
            /\ Answered(p) /\ Answered(q) =>
                 /\ sr[p].status = sr[q].status
                 /\ sr[p].headers = sr[q].headers
                 /\ sr[p].output = sr[q].output
            /\ Returned(p) /\ Returned(q) => result[p] = result[q]

C9_Witness ==
    \E p, q \in Workers :
        /\ Returned(p) /\ Returned(q)
        /\ IsGetHello(event[p]) /\ IsGetHello(event[q])
        /\ event[p].queryStringParameters # None
        /\ event[q].queryStringParameters = None
        /\ wsgienv[p].QUERY_STRING = "name=x"
        /\ result[p] = result[q]

\* lambda_handler(event, context) run alone on the application as built.
Alone(ev, ctx) ==
    sr_response(start_response(wsgi_app(InitialApp, environ(ev, ctx).value).response))

====
